---------------------------- MODULE Spec2Model ----------------------------
(* di2hap: conversion of diploid genotype calls to haploid calls.          *)
(* The model follows src/main.cpp: the sex map is read line by line into   *)
(* sex_map, then every record of the input is verified (optionally),      *)
(* reduced in place and written.  Buffers are 1-based sequences here; the  *)
(* C++ index k is the TLA+ index k + 1.                                    *)
EXTENDS Integers, Sequences, FiniteSets, TLC

(* ------------------------------ bounds -------------------------------- *)
MaxSamples == 2
MaxStride == 3
MaxRecords == 2
MaxFields == 2
MaxMapLines == 2

(* ----------------------------- constants ------------------------------ *)
\* savvy::typed_value::end_of_vector_value<std::int8_t>() is 0x81
END_OF_VECTOR == -127
TAB == "\t"
EXIT_SUCCESS == "EXIT_SUCCESS"
EXIT_FAILURE == "EXIT_FAILURE"
\* a vector that resize() grows is filled with value-initialised elements
ValueInit == 0

\* genotype values of a biallelic site
GtVals == {0, 1}
\* sample IDs of the input header, in header order (distinct, as VCF requires)
SampleIds == << <<"a">>, <<"b">>, <<"c">>, <<"d">> >>
\* values of --haploid-code: the default "0" and an override
HaploidCodes == { <<"0">>, <<"1">> }
\* the fields a sex map line is made of: empty, a sample ID, a code
FieldVals == {<<>>, <<"0">>, <<"1">>} \cup {SampleIds[i] : i \in 1..MaxSamples}

(* ------------------------------ inputs -------------------------------- *)
RECURSIVE JoinTab(_)
JoinTab(fs) ==
  IF Len(fs) = 0 THEN <<>>
  ELSE IF Len(fs) = 1 THEN fs[1]
  ELSE fs[1] \o <<TAB>> \o JoinTab(Tail(fs))

\* the lines a sex map file may hold: 1..MaxFields fields joined by tabs
MapLines ==
  { JoinTab(fs) : fs \in UNION { [1..k -> FieldVals] : k \in 1..MaxFields } }

\* the GT buffers of a record of n samples: n * stride values, stride 0..MaxStride
Records(n) == UNION { [1..(n * s) -> GtVals] : s \in 0..MaxStride }

\* the records of the streamed runs: per sample the copies after the first
\* are all equal to the first (homozygous, h[i] = 0) or all differ from it
StreamRecords(n) ==
  { [k \in 1..(n * s) |-> IF (k - 1) % s = 0 THEN 0 ELSE h[((k - 1) \div s) + 1]] :
      s \in 0..MaxStride, h \in [1..n -> {0, 1}] }

(* --------------------- split_string_to_vector ------------------------- *)
\* std::find(s, e, delim): the first position >= s holding delim, else e
Find(in, s, delim) ==
  IF \E k \in s..Len(in) : in[k] = delim
  THEN CHOOSE k \in s..Len(in) :
         in[k] = delim /\ \A m \in s..(k - 1) : in[m] # delim
  ELSE Len(in) + 1

RECURSIVE SplitFrom(_, _, _, _)
SplitFrom(in, s, delim, ret) ==
  LET d == Find(in, s, delim) IN
  IF d # Len(in) + 1
  THEN SplitFrom(in, d + 1, delim, Append(ret, SubSeq(in, s, d - 1)))
  ELSE Append(ret, SubSeq(in, s, d - 1))

split_string_to_vector_TrailingEmpty(in, delim) ==
  Append(SplitFrom(in, 1, delim, <<>>), <<>>)

split_string_to_vector(in, delim) == SplitFrom(in, 1, delim, <<>>)

(* ------------------------- sex map construction ----------------------- *)
\* id_to_idx[samples[i]] = i in index order; find() gives 0 for end()
id_to_idx(samples, id) ==
  IF \E i \in 1..Len(samples) : samples[i] = id
  THEN CHOOSE i \in 1..Len(samples) :
         samples[i] = id /\ \A m \in (i + 1)..Len(samples) : samples[m] # id
  ELSE 0

Malformed(fields) == Len(fields) < 2

SetFlag_LastWriteWins(sm, idx, code, hap) ==
  [sm EXCEPT ![idx] = IF code # hap THEN 0 ELSE 1]

\* if (fields[1] != args.haploid_code()) sex_map[res->second] = 0;
SetFlag(sm, idx, code, hap) ==
  IF code # hap THEN [sm EXCEPT ![idx] = 0] ELSE sm

\* one well-formed line applied to the map
ApplyLine(sm, samples, fields, hap) ==
  LET res == id_to_idx(samples, fields[1]) IN
  IF res = 0 THEN sm ELSE SetFlag(sm, res, fields[2], hap)

RECURSIVE accumulate(_)
accumulate(sm) == IF Len(sm) = 0 THEN 0 ELSE sm[1] + accumulate(Tail(sm))

(* ------------------------------ verify -------------------------------- *)
\* integer division of the buffer length by the sample count; a zero
\* divisor is undefined and is decided by the caller
Stride(len, n) == len \div n

\* a read of gt[k] (C++ index k).  A read outside the vector is undefined;
\* it happens only in gt[i] = gt[i * stride] on an empty vector, where the
\* write is outside the vector too, so the value read reaches no element
ReadGt(gt, k) == IF k >= 0 /\ k < Len(gt) THEN gt[k + 1] ELSE ValueInit

\* the two loops of verify, i and j as in the source; acc collects the
\* C++ indices read
RECURSIVE verify_loop(_, _, _, _, _, _)
verify_loop(gt, sm, stride, i, j, acc) ==
  IF i >= Len(sm) THEN [ok |-> TRUE, touched |-> acc]
  ELSE IF sm[i + 1] = 0 THEN verify_loop(gt, sm, stride, i + 1, 1, acc)
  ELSE IF j >= stride THEN verify_loop(gt, sm, stride, i + 1, 1, acc)
  ELSE LET acc2 == acc \cup {i * stride, i * stride + j} IN
       IF ReadGt(gt, i * stride) # ReadGt(gt, i * stride + j)
       THEN [ok |-> FALSE, touched |-> acc2]
       ELSE verify_loop(gt, sm, stride, i, j + 1, acc2)

verify_run(gt, sm, stride) == verify_loop(gt, sm, stride, 0, 1, {})

verify_FirstTwoOnly(gt, sm, stride) ==
  \A i \in 0..(Len(sm) - 1) :
    (sm[i + 1] # 0 /\ stride >= 2) => ReadGt(gt, i * stride) = ReadGt(gt, i * stride + 1)

verify(gt, sm, stride) == verify_run(gt, sm, stride).ok

(* ------------------------------ reducer ------------------------------- *)
\* gt[k] = v (C++ index k); a write outside the vector leaves its elements alone
WriteGt(gt, k, v) == IF k >= 0 /\ k < Len(gt) THEN [gt EXCEPT ![k + 1] = v] ELSE gt

\* for (i = 0; i < haploid_count; ++i) gt[i] = gt[i * stride];
RECURSIVE full_loop(_, _, _, _, _)
full_loop(gt, stride, hc, i, acc) ==
  IF i >= hc THEN [gt |-> gt, touched |-> acc]
  ELSE full_loop(WriteGt(gt, i, ReadGt(gt, i * stride)), stride, hc, i + 1,
                 acc \cup {i, i * stride})

\* gt.resize(n)
resize(gt, n) ==
  IF n <= Len(gt) THEN SubSeq(gt, 1, n)
  ELSE gt \o [k \in 1..(n - Len(gt)) |-> ValueInit]

full_run_LastCopy(gt, stride, hc) ==
  [gt |-> [k \in 1..Len(gt) |->
             IF k <= hc /\ stride >= 1 THEN gt[(k - 1) * stride + stride] ELSE gt[k]],
   touched |-> {k \in 0..(Len(gt) - 1) : k < hc}]

full_run(gt, stride, hc) == full_loop(gt, stride, hc, 0, {})

\* the partial branch: every copy after the first of a flagged sample
\* becomes END_OF_VECTOR
RECURSIVE partial_loop(_, _, _, _, _, _)
partial_loop(gt, sm, stride, i, j, acc) ==
  IF i >= Len(sm) THEN [gt |-> gt, touched |-> acc]
  ELSE IF sm[i + 1] = 0 THEN partial_loop(gt, sm, stride, i + 1, 1, acc)
  ELSE IF j >= stride THEN partial_loop(gt, sm, stride, i + 1, 1, acc)
  ELSE partial_loop(WriteGt(gt, i * stride + j, END_OF_VECTOR), sm, stride, i, j + 1,
                    acc \cup {i * stride + j})

partial_run_AllSamples(gt, sm, stride) ==
  partial_loop(gt, [k \in 1..Len(sm) |-> 1], stride, 0, 1, {})

partial_run(gt, sm, stride) == partial_loop(gt, sm, stride, 0, 1, {})

OutOfBounds(gt, touched) == \E k \in touched : k < 0 \/ k >= Len(gt)

FullStrategy_AnyHaploid(hc, n) == hc > 0

\* if (haploid_count == input_file.samples().size())
FullStrategy(hc, n) == hc = n

(* --------------------------- one loop turn ---------------------------- *)
VerifyFailure_WriteAnyway(g) ==
  [kind |-> "written", gt |-> g, vres |-> "fail", divzero |-> FALSE, oob |-> FALSE]

\* return EXIT_FAILURE after verify() said no
VerifyFailure(g) ==
  [kind |-> "verify_failed", gt |-> g, vres |-> "fail", divzero |-> FALSE, oob |-> FALSE]

\* The body of while (input_file >> rec) for one record whose GT buffer is g.
\* ub is what the build does on undefined behaviour: "trap" (the division
\* by zero or the access outside the vector ends the process) or "continue".
LoopBody(g, sm, hc, n, vflag, ub) ==
  IF n = 0 /\ ub = "trap"
  THEN [kind |-> "crashed", gt |-> g, vres |-> "none", divzero |-> TRUE, oob |-> FALSE]
  ELSE
    LET stride == IF n = 0 THEN 0 ELSE Stride(Len(g), n)
        vr == verify_run(g, sm, stride)
        voob == vflag /\ OutOfBounds(g, vr.touched)
        vres == IF vflag THEN "pass" ELSE "none"
    IN
    IF vflag /\ ~verify(g, sm, stride) THEN VerifyFailure(g)
    ELSE IF FullStrategy(hc, n)
    THEN LET f == full_run(g, stride, hc)
             foob == OutOfBounds(g, f.touched)
         IN IF foob /\ ub = "trap"
            THEN [kind |-> "crashed", gt |-> g, vres |-> vres,
                  divzero |-> (n = 0), oob |-> TRUE]
            ELSE [kind |-> "written", gt |-> resize(f.gt, hc), vres |-> vres,
                  divzero |-> (n = 0), oob |-> (voob \/ foob)]
    ELSE LET p == partial_run(g, sm, stride)
         IN [kind |-> "written", gt |-> p.gt, vres |-> vres,
             divzero |-> (n = 0), oob |-> (voob \/ OutOfBounds(g, p.touched))]

ExitStatus_InputOnly(in, out) == IF in = "bad" THEN EXIT_FAILURE ELSE EXIT_SUCCESS

\* return input_file.bad() || !output_file.good() ? EXIT_FAILURE : EXIT_SUCCESS;
ExitStatus(in, out) ==
  IF in = "bad" \/ out # "good" THEN EXIT_FAILURE ELSE EXIT_SUCCESS

(* ------------------ the sex map file as the text it is ---------------- *)
\* Read off the line itself, without the splitting of the program: the
\* positions of the tabs, the number of tab-delimited fields, the text
\* before the first tab and the text between the first and the second.
TabPositions(l) == {k \in 1..Len(l) : l[k] = TAB}
NumFields(l) == Cardinality(TabPositions(l)) + 1
NthTab(l, m) ==
  IF Cardinality(TabPositions(l)) < m THEN Len(l) + 1
  ELSE CHOOSE k \in TabPositions(l) :
         Cardinality({t \in TabPositions(l) : t < k}) = m - 1
FirstField(l) == SubSeq(l, 1, NthTab(l, 1) - 1)
SecondField(l) == SubSeq(l, NthTab(l, 1) + 1, NthTab(l, 2) - 1)
Names(l, ss, i) == NumFields(l) >= 2 /\ i \in 1..Len(ss) /\ ss[i] = FirstField(l)

\* every line of MapLines with what the program makes of it (fields) and
\* what the text itself says (nf, id, code)
InputLines ==
  { [text |-> l, fields |-> split_string_to_vector(l, TAB),
     nf |-> NumFields(l), id |-> FirstField(l), code |-> SecondField(l)] :
    l \in MapLines }
NamedDiploidBy(il, ss, hap) ==
  {i \in 1..Len(ss) : il.nf >= 2 /\ ss[i] = il.id /\ il.code # hap}

(* ------------------------------- state -------------------------------- *)
VARIABLES
  pc,             \* where main is: Initializing, Mapping, Streaming, Exited, Crashed
  exit_status,    \* "none" until main returns
  samples,        \* input_file.samples()
  verify_,        \* args.verify()
  sex_map_path_,  \* args.sex_map_path(), "" when no sex map is given
  haploid_code_,  \* args.haploid_code()
  input_file,     \* closed, good, eof, bad, openfail
  output_file,    \* closed, good, fail, openfail
  sex_map,        \* one 0/1 flag per sample
  haploid_count,
  line,           \* the sex map line read last
  n_lines,        \* sex map lines read
  n_read,         \* records read from the input
  gt_in,          \* the GT buffer of the record read last, as read
  gt,             \* the GT buffer after the loop turn
  written,        \* ordinals of the records handed to the output, in order
  verify_result,  \* none, pass, fail: verify() on the record read last
  div_by_zero,    \* a division by sex_map.size() == 0 was executed
  out_of_bounds,  \* an index outside the vector was read or written
  named_diploid   \* the samples some sex map line read so far names with a
                  \* code other than the haploid code (history of the input)

vars == <<pc, exit_status, samples, verify_, sex_map_path_, haploid_code_,
          input_file, output_file, sex_map, haploid_count, line, n_lines,
          n_read, gt_in, gt, written, verify_result, div_by_zero, out_of_bounds,
          named_diploid>>

args == <<samples, verify_, sex_map_path_, haploid_code_>>
stream == <<n_read, gt_in, gt, written, verify_result, div_by_zero, out_of_bounds>>

\* main after args.parse() succeeded without --help or --version
Init ==
  /\ pc = "Initializing"
  /\ exit_status = "none"
  /\ samples \in { SubSeq(SampleIds, 1, n) : n \in 0..MaxSamples }
  /\ verify_ \in BOOLEAN
  /\ sex_map_path_ \in {"", "sex.map"}
  /\ haploid_code_ \in HaploidCodes
  /\ input_file = "closed"
  /\ output_file = "closed"
  /\ sex_map = <<>>
  /\ haploid_count = 0
  /\ line = <<>>
  /\ n_lines = 0
  /\ n_read = 0
  /\ gt_in = <<>>
  /\ gt = <<>>
  /\ written = <<>>
  /\ verify_result = "none"
  /\ div_by_zero = FALSE
  /\ out_of_bounds = FALSE
  /\ named_diploid = {}

\* the reader or the writer does not open
OpenFail ==
  /\ pc = "Initializing"
  /\ \E which \in {"input", "output"} :
       /\ input_file' = IF which = "input" THEN "openfail" ELSE "good"
       /\ output_file' = IF which = "input" THEN "closed" ELSE "openfail"
  /\ pc' = "Exited"
  /\ exit_status' = EXIT_FAILURE
  /\ UNCHANGED <<args, sex_map, haploid_count, line, n_lines, stream, named_diploid>>

\* both open; std::vector<int> sex_map(input_file.samples().size(), 1)
OpenOk ==
  /\ pc = "Initializing"
  /\ input_file' = "good"
  /\ output_file' = "good"
  /\ sex_map' = [i \in 1..Len(samples) |-> 1]
  /\ pc' = "Mapping"
  /\ UNCHANGED <<exit_status, args, haploid_count, line, n_lines, stream, named_diploid>>

\* one turn of while (std::getline(sex_map_file, line))
ReadMapLine ==
  /\ pc = "Mapping"
  /\ sex_map_path_ # ""
  /\ n_lines < MaxMapLines
  /\ \E il \in InputLines :
       /\ line' = il.text
       /\ named_diploid' = named_diploid \cup NamedDiploidBy(il, samples, haploid_code_)
       /\ n_lines' = n_lines + 1
       /\ IF Malformed(il.fields)
          THEN /\ pc' = "Exited"
               /\ exit_status' = EXIT_FAILURE
               /\ sex_map' = sex_map
          ELSE /\ pc' = pc
               /\ exit_status' = exit_status
               /\ sex_map' = ApplyLine(sex_map, samples, il.fields, haploid_code_)
  /\ UNCHANGED <<args, input_file, output_file, haploid_count, stream>>

\* the sex map block is left (no path, or getline fails); haploid_count is summed
FinishMapping ==
  /\ pc = "Mapping"
  /\ haploid_count' = accumulate(sex_map)
  /\ line' = <<>>
  /\ n_lines' = 0
  /\ pc' = "Streaming"
  /\ UNCHANGED <<exit_status, args, input_file, output_file, sex_map, stream, named_diploid>>

\* one turn of while (input_file >> rec): get_format, verify, reduce, write;
\* the record's GT buffer is drawn from recs, at most limit records are read
ProcessRecordFrom(recs, limit) ==
  /\ pc = "Streaming"
  /\ n_read < limit
  /\ \E g \in recs, ub \in {"trap", "continue"}, sink \in {"good", "fail"} :
     \E r \in {LoopBody(g, sex_map, haploid_count, Len(samples), verify_, ub)} :
       /\ n_read' = n_read + 1
       /\ gt_in' = g
       /\ gt' = r.gt
       /\ verify_result' = r.vres
       /\ div_by_zero' = (div_by_zero \/ r.divzero)
       /\ out_of_bounds' = (out_of_bounds \/ r.oob)
       /\ written' = IF r.kind = "written" THEN Append(written, n_read + 1) ELSE written
       /\ output_file' = IF r.kind = "written" /\ output_file = "good" THEN sink
                          ELSE output_file
       /\ pc' = CASE r.kind = "written" -> pc
                  [] r.kind = "verify_failed" -> "Exited"
                  [] OTHER -> "Crashed"
       /\ exit_status' = CASE r.kind = "written" -> exit_status
                           [] r.kind = "verify_failed" -> EXIT_FAILURE
                           [] OTHER -> "SIGNAL"
  /\ UNCHANGED <<args, input_file, sex_map, haploid_count, line, n_lines, named_diploid>>

ProcessRecord == ProcessRecordFrom(StreamRecords(Len(samples)), MaxRecords)

\* input_file >> rec fails: end of input or a read error; main returns
EndOfInput ==
  /\ pc = "Streaming"
  /\ \E st \in {"eof", "bad"} :
       /\ input_file' = st
       /\ exit_status' = ExitStatus(st, output_file)
  /\ pc' = "Exited"
  /\ UNCHANGED <<args, output_file, sex_map, haploid_count, line, n_lines, stream,
                 named_diploid>>

Next ==
  \/ OpenFail
  \/ OpenOk
  \/ ReadMapLine
  \/ FinishMapping
  \/ ProcessRecord
  \/ EndOfInput

Spec == Init /\ [][Next]_vars

(* ------------- the loop turn on every record of the bounds ------------ *)
\* main at the head of the record loop: the files are open, the sex map is
\* built (any flags when a sex map was given, all 1 otherwise)
InitReduce ==
  /\ pc = "Streaming"
  /\ exit_status = "none"
  /\ samples \in { SubSeq(SampleIds, 1, n) : n \in 0..MaxSamples }
  /\ verify_ \in BOOLEAN
  /\ sex_map_path_ \in {"", "sex.map"}
  /\ haploid_code_ \in HaploidCodes
  /\ input_file = "good"
  /\ output_file = "good"
  /\ sex_map \in IF sex_map_path_ = "" THEN {[i \in 1..Len(samples) |-> 1]}
                 ELSE [1..Len(samples) -> {0, 1}]
  /\ haploid_count = accumulate(sex_map)
  /\ line = <<>>
  /\ n_lines = 0
  /\ n_read = 0
  /\ gt_in = <<>>
  /\ gt = <<>>
  /\ written = <<>>
  /\ verify_result = "none"
  /\ div_by_zero = FALSE
  /\ out_of_bounds = FALSE
  /\ named_diploid = {i \in 1..Len(samples) : sex_map[i] = 0}

ReduceRecord == ProcessRecordFrom(Records(Len(samples)), 1)

NextReduce == ReduceRecord

SpecReduce == InitReduce /\ [][NextReduce]_vars


(* ======================= properties of the program ==================== *)
N == Len(samples)
\* the stride the record read last had
InStride == IF N = 0 THEN 0 ELSE Len(gt_in) \div N
\* the record read last was handed to the output
LastWritten == n_read > 0 /\ Len(written) > 0 /\ written[Len(written)] = n_read
AllHaploid == \A i \in 1..N : sex_map[i] = 1
\* a sample flagged haploid holds two copies that differ
HetOnHaploid(g, sm) ==
  LET n == Len(sm)
      s == IF n = 0 THEN 0 ELSE Len(g) \div n
  IN \E i \in 0..(n - 1) :
       /\ sm[i + 1] = 1
       /\ \E j, k \in 0..(s - 1) : g[i * s + j + 1] # g[i * s + k + 1]
Completed == pc = "Exited" /\ exit_status = EXIT_SUCCESS
Aborted == pc = "Exited" /\ exit_status = EXIT_FAILURE

\* C1: when every sample is flagged haploid and the record read has
\* stride >= 1, the buffer written has exactly one value per sample and
\* value i is the first copy of sample i of the buffer as it was read.
C1_FullReduction ==
  (LastWritten /\ N >= 1 /\ AllHaploid /\ InStride >= 1 /\ Len(gt_in) = N * InStride)
    => /\ Len(gt) = N
       /\ \A i \in 0..(N - 1) : gt[i + 1] = gt_in[i * InStride + 1]

\* C1 witness: two haploid samples, both heterozygous in a stride-2 record,
\* written as the two first copies.
C1_Witness ==
  /\ LastWritten /\ AllHaploid /\ N = 2
  /\ gt_in = <<0, 1, 1, 0>>
  /\ gt = <<0, 1>>

\* C2: when some sample is flagged diploid, the buffer written has the
\* length of the buffer read; a haploid sample keeps its first copy and its
\* other copies are END_OF_VECTOR; a diploid sample is unchanged.
C2_PartialReduction ==
  (LastWritten /\ ~AllHaploid)
    => /\ Len(gt) = Len(gt_in)
       /\ Len(gt) = N * InStride
       /\ \A i \in 0..(N - 1) :
            IF sex_map[i + 1] = 1
            THEN /\ InStride >= 1 => gt[i * InStride + 1] = gt_in[i * InStride + 1]
                 /\ \A j \in 1..(InStride - 1) : gt[i * InStride + j + 1] = END_OF_VECTOR
            ELSE \A j \in 0..(InStride - 1) :
                   gt[i * InStride + j + 1] = gt_in[i * InStride + j + 1]

\* C2 witness: scenario B of the specification, map [true, false] and
\* buffer [1,1,0,1] written as [1,END,0,1].
C2_Witness ==
  /\ LastWritten
  /\ sex_map = <<1, 0>>
  /\ gt_in = <<1, 1, 0, 1>>
  /\ gt = <<1, END_OF_VECTOR, 0, 1>>

\* C3: verify fails exactly when some sample flagged haploid holds two
\* copies that differ; diploid samples are never compared, and a record of
\* stride 1 (or 0) passes.
C3_VerifierResult ==
  verify_result # "none"
    => /\ verify_result = "fail" <=> HetOnHaploid(gt_in, sex_map)
       /\ InStride <= 1 => verify_result = "pass"

\* C3 witness: a record whose diploid sample is heterozygous and whose
\* haploid sample is homozygous passes.
C3_Witness ==
  /\ verify_ /\ verify_result = "pass"
  /\ sex_map = <<1, 0>>
  /\ gt_in = <<1, 1, 0, 1>>

\* C4 (state part): with verify on, once the record read is heterozygous on
\* a haploid sample the run has returned EXIT_FAILURE, the records before
\* it are the ones written, each once and in input order, and it is not.
C4_State ==
  /\ \A k \in 1..Len(written) : written[k] = k
  /\ Len(written) <= n_read
  /\ (verify_ /\ n_read > 0 /\ HetOnHaploid(gt_in, sex_map))
       => /\ Aborted
          /\ verify_result = "fail"
          /\ Len(written) = n_read - 1

\* C4: hard stop on a verification failure: C4_State holds after every
\* step, and after main has returned no record is read or written and
\* nothing written is taken back.
C4_HardStop ==
  [][ /\ C4_State'
      /\ pc = "Exited" => (n_read' = n_read /\ written' = written /\ pc' = pc
                            /\ exit_status' = exit_status) ]_vars

\* C4 witness: the second record fails verification after the first was
\* written.
C4_Witness ==
  /\ verify_ /\ verify_result = "fail" /\ Aborted
  /\ n_read = 2 /\ written = <<1>>

\* C5 as claimed: after a line naming a known sample the flag of the sample
\* is decided by that line alone: true if its code is the haploid code,
\* false otherwise.
C5_LastWriteWins ==
  (pc = "Mapping" /\ n_lines > 0)
    => \A i \in 1..N :
         Names(line, samples, i)
           => sex_map[i] = (IF SecondField(line) = haploid_code_ THEN 1 ELSE 0)

\* C5 as amended: the flag of a sample is false exactly when some line
\* read so far names it with a code other than the haploid code; a later
\* line with the haploid code does not set it back to true.
C5_DiploidLineSticks ==
  pc \in {"Mapping", "Streaming"}
    => \A i \in 1..N : sex_map[i] = 0 <=> i \in named_diploid

\* C5 witness: the line read last names sample a with the haploid code and
\* the flag of a is false, from an earlier line.
C5_Witness ==
  /\ pc = "Mapping" /\ n_lines = 2 /\ N >= 1
  /\ Names(line, samples, 1) /\ SecondField(line) = haploid_code_
  /\ sex_map[1] = 0

\* C6: with no samples the run returns EXIT_FAILURE and no division by the
\* sample count is executed.
C6_ZeroSampleGuard ==
  /\ ~div_by_zero
  /\ (N = 0 /\ pc = "Exited") => exit_status = EXIT_FAILURE

\* C7 (state part): once the map is built haploid_count is the number of
\* true flags; a written record has one value per sample if every flag is
\* true and the length it was read with otherwise; without a sex map every
\* flag is true and every written record has stride 1.
C7_State ==
  (pc # "Initializing" /\ Len(sex_map) = N)
    => /\ pc = "Streaming" => haploid_count = Cardinality({i \in 1..N : sex_map[i] = 1})
       /\ LastWritten => Len(gt) = (IF AllHaploid THEN N ELSE Len(gt_in))
       /\ sex_map_path_ = "" => (AllHaploid /\ (LastWritten => Len(gt) = N * 1))

\* C7: the strategy is chosen once per run: C7_State holds after every
\* step and no step taken while streaming changes the map, the count or
\* the samples.
C7_GlobalStrategy ==
  [][ /\ C7_State'
      /\ pc = "Streaming" => (sex_map' = sex_map /\ haploid_count' = haploid_count
                               /\ samples' = samples) ]_vars

\* C7 witness: no sex map, the second record of stride 2 is written with
\* one value per sample.
C7_Witness ==
  /\ sex_map_path_ = "" /\ N = 2
  /\ written = <<1, 2>>
  /\ Len(gt_in) = 4 /\ Len(gt) = 2

\* what the claim calls an abort condition, read off the state
MalformedRead == n_lines > 0 /\ NumFields(line) < 2
VerificationFailed == verify_ /\ n_read > 0 /\ HetOnHaploid(gt_in, sex_map)
OpenFailed == input_file = "openfail" \/ output_file = "openfail"

\* C8: main returns EXIT_SUCCESS exactly when the input ended without a
\* read error, the output is healthy and nothing was malformed or failed
\* verification; a malformed line, a failed verification or a file that
\* does not open has ended the run with EXIT_FAILURE, and so has every
\* return with a read error or an unhealthy output.  (A process that the
\* undefined behaviour of C6 or C10 kills never returns from main: it is in
\* neither state.)
C8_ExitStatus ==
  /\ Completed <=> /\ pc = "Exited"
                   /\ input_file = "eof"
                   /\ output_file = "good"
                   /\ ~MalformedRead /\ ~VerificationFailed /\ ~OpenFailed
  /\ (MalformedRead \/ VerificationFailed \/ OpenFailed \/ input_file = "bad") => Aborted
  /\ (pc = "Exited" /\ output_file = "fail") => Aborted
  /\ pc = "Exited" => (Completed \/ Aborted)

\* C8 witness: the output turned unhealthy on the first of two records and
\* the input then ended cleanly: EXIT_FAILURE.
C8_Witness ==
  /\ Aborted /\ input_file = "eof" /\ output_file = "fail"
  /\ written = <<1, 2>>

\* C9 (state part): a line with fewer than two tab-delimited fields has
\* ended the run with EXIT_FAILURE with no record read or written.
C9_State ==
  /\ MalformedRead => (Aborted /\ n_read = 0 /\ written = <<>>)
  /\ pc = "Mapping" => (n_read = 0 /\ written = <<>>)

\* C9: C9_State holds after every step, and a step that reads a
\* well-formed line whose ID is no sample leaves every flag as it was and
\* the run in the mapping phase.
C9_MalformedAborts ==
  [][ /\ C9_State'
      /\ (n_lines' = n_lines + 1 /\ NumFields(line') >= 2
          /\ \A i \in 1..N : samples[i] # FirstField(line'))
           => (sex_map' = sex_map /\ pc' = "Mapping" /\ exit_status' = "none") ]_vars

\* C9 witness: a malformed second line after a well-formed first line that
\* cleared a flag.
C9_Witness ==
  /\ n_lines = 2 /\ NumFields(line) < 2 /\ Aborted
  /\ N = 2 /\ sex_map = <<0, 1>>
  /\ n_read = 0

\* C10: no index outside the buffer is read or written by verify or by
\* either reduction (sample count >= 1, buffer length a multiple of it).
C10_IndexSafety ==
  (N >= 1 /\ Len(gt_in) = N * InStride) => ~out_of_bounds

=============================================================================
